---------------------------- MODULE Spec2Model ----------------------------
(***************************************************************************)
(* A model of remove_blog.py: the blog-reference remover.                  *)
(*                                                                         *)
(* Text is a sequence of one-character strings.  The four compiled         *)
(* patterns and the blank-line pattern are written out atom by atom and    *)
(* run by a backtracking matcher with the priorities of Python's re        *)
(* (greedy quantifiers try the longest repetition first, lazy ones the     *)
(* shortest, alternatives left to right), and re.sub is the leftmost,      *)
(* non-overlapping scan.  The file system is a function from names to the  *)
(* stored characters; reading decodes them and translates line endings.    *)
(***************************************************************************)
EXTENDS Integers, Sequences, FiniteSets

(***************************************************************************)
(* Regular expressions (src/remove_blog.py:7-15, 24)                       *)
(***************************************************************************)

\* re.I folds ASCII letters; the other characters of the patterns have no case.
Lower ==
    <<"a","b","c","d","e","f","g","h","i","j","k","l","m",
      "n","o","p","q","r","s","t","u","v","w","x","y","z">>

Upper ==
    <<"A","B","C","D","E","F","G","H","I","J","K","L","M",
      "N","O","P","Q","R","S","T","U","V","W","X","Y","Z">>

Fold(c) ==
    {c} \cup {Upper[i] : i \in {j \in 1..Len(Lower) : Lower[j] = c}}
        \cup {Lower[i] : i \in {j \in 1..Len(Upper) : Upper[j] = c}}

\* An atom is a character class (cs, complemented when neg) repeated lo..hi
\* times (no upper limit when inf), lazily or greedily; or, when lit is not
\* empty, a literal given by the class of each of its characters; or, when
\* alts is not empty, a group of alternatives tried in order.
Atom(cs, neg, lo, hi, inf, lazy) ==
    [cs |-> cs, neg |-> neg, lo |-> lo, hi |-> hi, inf |-> inf,
     lazy |-> lazy, lit |-> <<>>, alts |-> <<>>]

\* x : one character of the class
One(cs) == <<Atom(cs, FALSE, 1, 1, FALSE, FALSE)>>

\* x? : greedy, zero or one
Opt(cs) == <<Atom(cs, FALSE, 0, 1, FALSE, FALSE)>>

\* x* : greedy, zero or more
Star(cs) == <<Atom(cs, FALSE, 0, 0, TRUE, FALSE)>>

\* [^x]* : greedy, zero or more of the complement
StarNot(cs) == <<Atom(cs, TRUE, 0, 0, TRUE, FALSE)>>

\* [\s\S]*? : lazy, zero or more of any character
LazyAny == <<Atom({}, TRUE, 0, 0, TRUE, TRUE)>>

\* x{n,} : greedy, n or more
AtLeast(cs, n) == <<Atom(cs, FALSE, n, 0, TRUE, FALSE)>>

\* a literal under re.I: each character matches either case
Lit(s) ==
    << [cs |-> {}, neg |-> FALSE, lo |-> 1, hi |-> 1, inf |-> FALSE,
        lazy |-> FALSE, lit |-> [i \in 1..Len(s) |-> Fold(s[i])],
        alts |-> <<>>] >>

\* (a|b): the alternatives in order
Group(branches) ==
    << [cs |-> {}, neg |-> FALSE, lo |-> 1, hi |-> 1, inf |-> FALSE,
        lazy |-> FALSE, lit |-> <<>>, alts |-> branches] >>

\* \s for the characters a TLA+ string can spell (\v is left out)
Space == {" ", "\t", "\n", "\r", "\f"}

\* the class ["\"] of the patterns: the double quote, written twice
QuoteClass == {"\""}

\* [1-6]
HeadingLevel == {"1", "2", "3", "4", "5", "6"}

\* <a[^>]*href=["\"][^"\"]*blog[^"\"]*["\"][^>]*>\s*Blog\s*</a>
AnchorRx ==
    Lit(<<"<","a">>) \o StarNot({">"}) \o Lit(<<"h","r","e","f","=">>)
      \o One(QuoteClass) \o StarNot(QuoteClass) \o Lit(<<"b","l","o","g">>)
      \o StarNot(QuoteClass) \o One(QuoteClass) \o StarNot({">"})
      \o Lit(<<">">>) \o Star(Space) \o Lit(<<"B","l","o","g">>)
      \o Star(Space) \o Lit(<<"<","/","a",">">>)

\* patterns[0]: \n?\s*<li[^>]*>\s* anchor \s*</li>\s*
ListItemRx ==
    Opt({"\n"}) \o Star(Space) \o Lit(<<"<","l","i">>) \o StarNot({">"})
      \o Lit(<<">">>) \o Star(Space) \o AnchorRx \o Star(Space)
      \o Lit(<<"<","/","l","i",">">>) \o Star(Space)

\* patterns[1]: \n?\s* anchor \s*
StandaloneAnchorRx == Opt({"\n"}) \o Star(Space) \o AnchorRx \o Star(Space)

\* patterns[2]:
\* <section[^>]*(id|class)=["\"][^"\"]*blog[^"\"]*["\"][^>]*>[\s\S]*?</section>
SectionRx ==
    Lit(<<"<","s","e","c","t","i","o","n">>) \o StarNot({">"})
      \o Group(<<Lit(<<"i","d">>), Lit(<<"c","l","a","s","s">>)>>)
      \o Lit(<<"=">>) \o One(QuoteClass) \o StarNot(QuoteClass)
      \o Lit(<<"b","l","o","g">>) \o StarNot(QuoteClass) \o One(QuoteClass)
      \o StarNot({">"}) \o Lit(<<">">>) \o LazyAny
      \o Lit(<<"<","/","s","e","c","t","i","o","n",">">>)

\* (mutant of HeadingRx: anything may follow Blog up to the closing tag)
HeadingRxPrefix ==
    Opt({"\n"}) \o Star(Space) \o Lit(<<"<","h">>) \o One(HeadingLevel)
      \o StarNot({">"}) \o Lit(<<">">>) \o Star(Space)
      \o Lit(<<"B","l","o","g">>) \o StarNot({"<"}) \o Lit(<<"<","/","h">>)
      \o One(HeadingLevel) \o Lit(<<">">>) \o Star(Space)

\* patterns[3]: \n?\s*<h[1-6][^>]*>\s*Blog\s*</h[1-6]>\s*
HeadingRx ==
    Opt({"\n"}) \o Star(Space) \o Lit(<<"<","h">>) \o One(HeadingLevel)
      \o StarNot({">"}) \o Lit(<<">">>) \o Star(Space)
      \o Lit(<<"B","l","o","g">>) \o Star(Space) \o Lit(<<"<","/","h">>)
      \o One(HeadingLevel) \o Lit(<<">">>) \o Star(Space)

\* the rules in the order of the list; every replacement is ''
patterns == <<ListItemRx, StandaloneAnchorRx, SectionRx, HeadingRx>>

\* \n{3,} and its replacement '\n\n'
BlankLinesRx == AtLeast({"\n"}, 3)

BlankLinesRepl == <<"\n", "\n">>

(***************************************************************************)
(* The matcher: rx.sub(repl, text)                                         *)
(***************************************************************************)

Member(c, a) == (c \in a.cs) # a.neg

\* how many characters from pos on are in the class of a: the least n with
\* n members in a row and then the end of the text or a character that is not
RunLen(a, t, pos) ==
    IF a.neg /\ a.cs = {} THEN Len(t) + 1 - pos
    ELSE CHOOSE n \in 0..(Len(t) + 1 - pos) :
            /\ \A i \in 0..(n - 1) : Member(t[pos + i], a)
            /\ pos + n > Len(t) \/ ~Member(t[pos + n], a)

\* the most repetitions of a at pos
MaxRep(a, t, pos) ==
    LET run == RunLen(a, t, pos)
    IN  IF a.inf \/ run < a.hi THEN run ELSE a.hi

\* the literal lit is at pos
LitAt(lit, t, pos) ==
    /\ pos + Len(lit) - 1 <= Len(t)
    /\ \A i \in 1..Len(lit) : t[pos + i - 1] \in lit[i]

\* The matcher is a backtracking one: at each atom it tries the atom's ways
\* to match in a fixed order (a greedy atom the most repetitions first, a
\* lazy atom the fewest first, an alternation its branches from left to
\* right) and goes on with the rest of the pattern; the match is the first
\* way through the whole pattern in that order.  Ends keeps the positions the
\* matcher can be at before rx[k], in the order it would get to them; the
\* match is the first position left after the last atom.
RECURSIVE Ends(_, _, _, _)

\* the ends of each branch at p, the branches from left to right
RECURSIVE Alternatives(_, _, _, _)
Alternatives(alts, t, p, i) ==
    IF i > Len(alts) THEN <<>>
    ELSE Ends(alts[i], 1, t, <<p>>) \o Alternatives(alts, t, p, i + 1)

\* where the atom a can end when it starts at p, in the order tried
Choices(a, t, p) ==
    IF a.alts # <<>> THEN Alternatives(a.alts, t, p, 1)
    ELSE LET most == MaxRep(a, t, p)
         IN  IF most < a.lo THEN <<>>
             ELSE [j \in 1..(most - a.lo + 1) |->
                     IF a.lazy THEN p + a.lo + j - 1 ELSE p + most - j + 1]

\* Choices for paths[from], ..., paths[to] in that order, the range split in
\* halves.  A position that is in paths a second time is skipped: what
\* follows it was tried already.
RECURSIVE Flat(_, _, _, _, _)
Flat(a, t, paths, from, to) ==
    IF from > to THEN <<>>
    ELSE IF from = to
         THEN IF \E j \in 1..(from - 1) : paths[j] = paths[from] THEN <<>>
              ELSE Choices(a, t, paths[from])
         ELSE LET mid == (from + to) \div 2
              IN  Flat(a, t, paths, from, mid) \o Flat(a, t, paths, mid + 1, to)

\* the positions after the atom a, for the positions paths before it
Expand(a, t, paths) ==
    IF a.lit # <<>>
    THEN LET here == SelectSeq(paths, LAMBDA p : LitAt(a.lit, t, p))
         IN  [i \in 1..Len(here) |-> here[i] + Len(a.lit)]
    ELSE Flat(a, t, paths, 1, Len(paths))

Ends(rx, k, t, paths) ==
    IF paths = <<>> \/ k > Len(rx) THEN paths
    ELSE Ends(rx, k + 1, t, Expand(rx[k], t, paths))

\* The position after the match of rx[k..] that starts at pos; 0 when there
\* is none.
MatchAt(rx, k, t, pos) ==
    LET e == Ends(rx, k, t, <<pos>>)
    IN  IF e = <<>> THEN 0 ELSE e[1]

\* re.sub: found holds, for each position p of the text, <<p, e>> where e is
\* the position after the match that starts at p (0: none).  From pos on, the
\* text up to the leftmost match is copied, the match is replaced and the scan
\* goes on after it.  (None of the patterns can match the empty string, so
\* the scan always moves on.)
RECURSIVE SubFrom(_, _, _, _)
SubFrom(found, repl, t, pos) ==
    LET later == {m \in found : m[1] >= pos /\ m[2] > m[1]}
    IN  IF later = {} THEN SubSeq(t, pos, Len(t))
        ELSE LET m == CHOOSE m \in later : \A o \in later : m[1] <= o[1]
             IN  SubSeq(t, pos, m[1] - 1) \o repl \o SubFrom(found, repl, t, m[2])

Sub(rx, repl, t) ==
    SubFrom({<<p, MatchAt(rx, 1, t, p)>> : p \in 1..Len(t)}, repl, t, 1)

\* for rx, repl in patterns: text = rx.sub(repl, text)
\* The values text takes: the text read, then the text after each rule.
\* done holds the values so far; the next rule is applied to the last one.
RECURSIVE RuleLoop(_, _)
RuleLoop(n, done) ==
    IF Len(done) > n THEN done
    ELSE RuleLoop(n, Append(done, Sub(patterns[Len(done)], <<>>, done[Len(done)])))

\* the text t, then the text after each of the first n rules
RuleStages(n, t) == RuleLoop(n, <<t>>)

\* the text after the first n rules
ApplyRules(n, t) == RuleStages(n, t)[n + 1]

\* text = re.sub(r'\n{3,}', '\n\n', text)
CollapseBlankLines(t) == Sub(BlankLinesRx, BlankLinesRepl, t)

\* the text of a file after the rules and the blank-line collapse
Transform(t) == CollapseBlankLines(ApplyRules(Len(patterns), t))

(***************************************************************************)
(* Files                                                                   *)
(***************************************************************************)

\* A name is <<stem, suffix>>; a stored file is its sequence of characters,
\* where an element that is not one character stands for a byte that is not
\* UTF-8.
IndexHtml == <<"index", ".html">>

BlogHtml == <<"blog", ".html">>

BlogsHtml == <<"blogs", ".html">>

NotesTxt == <<"notes", ".txt">>

\* (mutants of FixedNames: the second name forgotten; the names swapped)
FixedNamesBlogOnly == <<BlogHtml>>

FixedNamesSwapped == <<BlogsHtml, BlogHtml>>

\* for name in ['blog.html', 'blogs.html']
FixedNames == <<BlogHtml, BlogsHtml>>

InvalidBytes == {"0xFF"}

\* read_text(encoding='utf-8') raises UnicodeDecodeError on these
Decodable(stored) == \A i \in 1..Len(stored) : stored[i] \notin InvalidBytes

\* Text mode reads with universal newlines: \r\n and a lone \r become \n.
TranslateNewlines(stored) ==
    LET marked == [i \in 1..Len(stored) |->
                     [c |-> IF stored[i] = "\r" THEN "\n" ELSE stored[i],
                      drop |-> /\ stored[i] = "\r"
                               /\ i < Len(stored)
                               /\ stored[i + 1] = "\n"]]
        NotDropped(m) == ~m.drop
        kept == SelectSeq(marked, NotDropped)
    IN  [i \in 1..Len(kept) |-> kept[i].c]

\* p.read_text(encoding='utf-8')
ReadText(stored) == TranslateNewlines(stored)

\* p.write_text(text, encoding='utf-8'): on POSIX \n is written as it is and
\* the characters of a decoded text encode to themselves.
WriteText(t) == t

\* root.glob('*.html'): the entries whose name ends in .html
Glob(dir) == {n \in DOMAIN dir : n[2] = ".html"}

\* f'{name} (deleted)'
DeletedEntry(name) == name \o <<" (deleted)">>

\* '\n'.join(changed)
RECURSIVE Join(_)
Join(lines) ==
    IF lines = <<>> THEN <<>>
    ELSE IF Len(lines) = 1 THEN lines[1]
    ELSE lines[1] \o <<"\n">> \o Join(Tail(lines))

\* (mutant of Report: the empty list is joined too)
ReportJoined(lines) == Join(lines)

\* '\n'.join(changed) if changed else 'No changes'
Report(lines) == IF lines # <<>> THEN Join(lines) ELSE <<"No changes">>

\* the directory without the entry name
Unlink(dir, name) == [n \in DOMAIN dir \ {name} |-> dir[n]]

(***************************************************************************)
(* The script                                                              *)
(***************************************************************************)

VARIABLES
    fs,        \* the root directory: name -> stored characters
    pc,        \* "loop", "write", "delete", "done" or "aborted"
    todo,      \* the entries of the glob not yet visited
    cur,       \* p, the file of the current iteration
    original,  \* original
    text,      \* text
    stages,    \* the values text took while the rules were applied
    changed,   \* changed
    di,        \* the position of the deletion loop in FixedNames
    ops,       \* what the run did to the outside so far, in order
    run,       \* which run of the script this is
    fs0        \* the directory as the run found it

vars == <<fs, pc, todo, cur, original, text, stages, changed, di, ops, run, fs0>>

Op(kind, name, data) == [op |-> kind, name |-> name, data |-> data]

\* where the script is once the file loop has nothing left to visit
AfterFile(left) == IF left = {} THEN "delete" ELSE "loop"

\* (mutant of Propagate: the exception is caught and the loop goes on)
PropagateCaught(name) ==
    /\ pc' = IF pc = "write" THEN AfterFile(todo) ELSE pc
    /\ ops' = Append(ops, Op("raise", name, <<>>))
    /\ UNCHANGED <<todo, cur, original, text, stages, changed, di, run, fs0>>

\* An exception nobody catches ends the script.
Propagate(name) ==
    /\ pc' = "aborted"
    /\ ops' = Append(ops, Op("raise", name, <<>>))
    /\ UNCHANGED <<todo, cur, original, text, stages, changed, di, run, fs0>>

\* The state of a fresh run in directory dir.
Start(dir) ==
    /\ fs = dir
    /\ fs0 = dir
    /\ todo = Glob(dir)
    /\ pc = AfterFile(Glob(dir))
    /\ cur = <<>>
    /\ original = <<>>
    /\ text = <<>>
    /\ stages = <<>>
    /\ changed = <<>>
    /\ di = 1
    /\ ops = <<>>

\* text = p.read_text(...); original = text; the rules; the collapse
Read(p) ==
    /\ pc = "loop"
    /\ p \in todo
    /\ p \in DOMAIN fs
    /\ Decodable(fs[p])
    /\ stages' = RuleStages(Len(patterns), ReadText(fs[p]))
    /\ original' = stages'[1]
    /\ text' = CollapseBlankLines(stages'[Len(stages')])
    /\ cur' = p
    /\ todo' = todo \ {p}
    /\ pc' = "write"
    /\ ops' = Append(ops, Op("read", p, <<>>))
    /\ UNCHANGED <<fs, changed, di, run, fs0>>

\* read_text raises: the file cannot be opened or is not UTF-8
ReadFault(p) ==
    /\ pc = "loop"
    /\ p \in todo
    /\ UNCHANGED fs
    /\ Propagate(p)

\* (mutant of WriteBack: the comparison with original is dropped)
WriteBackAlways ==
    /\ pc = "write"
    /\ fs' = [fs EXCEPT ![cur] = WriteText(text)]
    /\ changed' = Append(changed, cur)
    /\ ops' = Append(ops, Op("write", cur, text))
    /\ pc' = AfterFile(todo)
    /\ UNCHANGED <<todo, cur, original, text, stages, di, run, fs0>>

\* if text != original: p.write_text(text, ...); changed.append(p.name)
WriteBack ==
    /\ pc = "write"
    /\ IF text # original
       THEN /\ fs' = [fs EXCEPT ![cur] = WriteText(text)]
            /\ changed' = Append(changed, cur)
            /\ ops' = Append(ops, Op("write", cur, text))
       ELSE UNCHANGED <<fs, changed, ops>>
    /\ pc' = AfterFile(todo)
    /\ UNCHANGED <<todo, cur, original, text, stages, di, run, fs0>>

\* write_text raises: either the file could not be opened, or it was
\* truncated and the write failed
WriteFault ==
    /\ pc = "write"
    /\ text # original
    /\ \E left \in {fs[cur], <<>>} : fs' = [fs EXCEPT ![cur] = left]
    /\ Propagate(cur)

\* (mutant of DeleteStep: the entry is appended outside the if)
DeleteStepAlwaysReports ==
    /\ pc = "delete"
    /\ di <= Len(FixedNames)
    /\ LET name == FixedNames[di]
       IN  /\ changed' = Append(changed, DeletedEntry(name))
           /\ IF name \in DOMAIN fs
              THEN /\ fs' = Unlink(fs, name)
                   /\ ops' = Append(ops, Op("unlink", name, <<>>))
              ELSE UNCHANGED <<fs, ops>>
    /\ di' = di + 1
    /\ UNCHANGED <<pc, todo, cur, original, text, stages, run, fs0>>

\* f = root / name; if f.exists(): f.unlink(); changed.append(...)
DeleteStep ==
    /\ pc = "delete"
    /\ di <= Len(FixedNames)
    /\ LET name == FixedNames[di]
       IN  IF name \in DOMAIN fs
           THEN /\ fs' = Unlink(fs, name)
                /\ changed' = Append(changed, DeletedEntry(name))
                /\ ops' = Append(ops, Op("unlink", name, <<>>))
           ELSE UNCHANGED <<fs, changed, ops>>
    /\ di' = di + 1
    /\ UNCHANGED <<pc, todo, cur, original, text, stages, run, fs0>>

\* f.unlink() raises
UnlinkFault ==
    /\ pc = "delete"
    /\ di <= Len(FixedNames)
    /\ FixedNames[di] \in DOMAIN fs
    /\ UNCHANGED fs
    /\ Propagate(FixedNames[di])

\* print('\n'.join(changed) if changed else 'No changes')
PrintReport ==
    /\ pc = "delete"
    /\ di > Len(FixedNames)
    /\ ops' = Append(ops, Op("print", <<>>, Report(changed)))
    /\ pc' = "done"
    /\ UNCHANGED <<fs, todo, cur, original, text, stages, changed, di, run, fs0>>

\* The script is run again in the directory the finished run left.
MaxRuns == 2

RunAgain ==
    /\ pc = "done"
    /\ run < MaxRuns
    /\ run' = run + 1
    /\ fs' = fs
    /\ fs0' = fs
    /\ todo' = Glob(fs)
    /\ pc' = AfterFile(Glob(fs))
    /\ cur' = <<>>
    /\ original' = <<>>
    /\ text' = <<>>
    /\ stages' = <<>>
    /\ changed' = <<>>
    /\ di' = 1
    /\ ops' = <<>>

Next ==
    \/ \E p \in todo : Read(p)
    \/ \E p \in todo : ReadFault(p)
    \/ WriteBack
    \/ WriteFault
    \/ DeleteStep
    \/ UnlinkFault
    \/ PrintReport
    \/ RunAgain

(***************************************************************************)
(* Inputs: pieces of HTML, and the texts built from up to MaxPieces of them *)
(***************************************************************************)

MaxPieces == 3

\* <li><a href="/blog">Blog</a></li>
ItemBlog ==
    <<"<","l","i",">","<","a"," ","h","r","e","f","=","\"","/","b","l","o",
      "g","\"",">","B","l","o","g","<","/","a",">","<","/","l","i",">">>

\* <LI class="n">\n <a id="b" href="/MyBLOG/x" >\n Blog </a> </li>
ItemBlogLoose ==
    <<"<","L","I"," ","c","l","a","s","s","=","\"","n","\"",">","\n"," ",
      "<","a"," ","i","d","=","\"","b","\""," ","h","r","e","f","=","\"",
      "/","M","y","B","L","O","G","/","x","\""," ",">","\n"," ","B","l","o",
      "g"," ","<","/","a",">"," ","<","/","l","i",">">>

\* <li><a href='/blog'>Blog</a></li>
ItemBlogSingle ==
    <<"<","l","i",">","<","a"," ","h","r","e","f","=","'","/","b","l","o",
      "g","'",">","B","l","o","g","<","/","a",">","<","/","l","i",">">>

\* <li><a href="/">Home</a></li>
ItemHome ==
    <<"<","l","i",">","<","a"," ","h","r","e","f","=","\"","/","\"",">","H",
      "o","m","e","<","/","a",">","<","/","l","i",">">>

\* <li><a href="/blog">Blog posts</a></li>
ItemBlogPosts ==
    <<"<","l","i",">","<","a"," ","h","r","e","f","=","\"","/","b","l","o",
      "g","\"",">","B","l","o","g"," ","p","o","s","t","s","<","/","a",">",
      "<","/","l","i",">">>

\* <li><a href="/about">Blog</a></li>
ItemAboutBlog ==
    <<"<","l","i",">","<","a"," ","h","r","e","f","=","\"","/","a","b","o",
      "u","t","\"",">","B","l","o","g","<","/","a",">","<","/","l","i",">">>

\* list items whose anchor has an href containing "blog" and the text Blog
BlogItems == {ItemBlog, ItemBlogLoose, ItemBlogSingle}

\* the other list items
OtherItems == {ItemHome, ItemBlogPosts, ItemAboutBlog}

ListItemPieces == BlogItems \cup OtherItems \cup {<<"\n">>}

\* <section id="blog-posts">
OpenId ==
    <<"<","s","e","c","t","i","o","n"," ","i","d","=","\"","b","l","o","g",
      "-","p","o","s","t","s","\"",">">>

\* <SECTION data-x="1" class="my Blog">
OpenClass ==
    <<"<","S","E","C","T","I","O","N"," ","d","a","t","a","-","x","=","\"",
      "1","\""," ","c","l","a","s","s","=","\"","m","y"," ","B","l","o","g",
      "\"",">">>

\* <section id='blog'>
OpenSingle ==
    <<"<","s","e","c","t","i","o","n"," ","i","d","=","'","b","l","o","g",
      "'",">">>

\* <section>x</section>
InnerSection ==
    <<"<","s","e","c","t","i","o","n",">","x","<","/","s","e","c","t","i",
      "o","n",">">>

\* </section>
CloseSection ==
    <<"<","/","s","e","c","t","i","o","n",">">>

\* opening section tags whose id or class contains "blog"
BlogOpenings == {OpenId, OpenClass, OpenSingle}

SectionPieces == BlogOpenings \cup {InnerSection, CloseSection, <<"x">>}

\* <h1>Blog</h1>
H1Blog ==
    <<"<","h","1",">","B","l","o","g","<","/","h","1",">">>

\* <H2 class="t"> bLoG\n</h2>
H2Blog ==
    <<"<","H","2"," ","c","l","a","s","s","=","\"","t","\"",">"," ","b","L",
      "o","G","\n","<","/","h","2",">">>

\* <h3>blog</h3>
H3Blog ==
    <<"<","h","3",">","b","l","o","g","<","/","h","3",">">>

\* <h4>\tBlog </h4>
H4Blog ==
    <<"<","h","4",">","\t","B","l","o","g"," ","<","/","h","4",">">>

\* <h5 id="b">BLOG</h5>
H5Blog ==
    <<"<","h","5"," ","i","d","=","\"","b","\"",">","B","L","O","G","<","/",
      "h","5",">">>

\* <h6>Blog</H6>
H6Blog ==
    <<"<","h","6",">","B","l","o","g","<","/","H","6",">">>

\* <h2>Blog Archive</h2>
HArchive ==
    <<"<","h","2",">","B","l","o","g"," ","A","r","c","h","i","v","e","<",
      "/","h","2",">">>

\* <h3>My Blog</h3>
HMyBlog ==
    <<"<","h","3",">","M","y"," ","B","l","o","g","<","/","h","3",">">>

\* headings whose text is Blog, one of each level
BlogHeadings == {H1Blog, H2Blog, H3Blog, H4Blog, H5Blog, H6Blog}

\* headings whose text only contains Blog
OtherHeadings == {HArchive, HMyBlog}

HeadingPieces == BlogHeadings \cup OtherHeadings \cup {<<"\n">>}

RECURSIVE Flatten(_)
Flatten(ps) == IF ps = <<>> THEN <<>> ELSE ps[1] \o Flatten(Tail(ps))

\* the texts made of at most MaxPieces pieces
Texts(pieces) == {Flatten(ps) : ps \in UNION {[1..n -> pieces] : n \in 0..MaxPieces}}

\* piece is in t at position i
OccursAt(piece, t, i) ==
    /\ i + Len(piece) - 1 <= Len(t)
    /\ \A k \in 1..Len(piece) : t[i + k - 1] = piece[k]

\* how many times piece is in t
Occurs(piece, t) == Cardinality({i \in 1..Len(t) : OccursAt(piece, t, i)})

\* One file, index.html, holding a text: the rules are applied to it.
InitText(pieces) ==
    /\ run = 1
    /\ \E t \in Texts(pieces) : Start([n \in {IndexHtml} |-> t])

NextRules ==
    \/ \E p \in todo : Read(p)
    \/ WriteBack

InitListItem == InitText(ListItemPieces)

SpecListItem == InitListItem /\ [][NextRules]_vars

InitSection == InitText(SectionPieces)

SpecSection == InitSection /\ [][NextRules]_vars

InitHeading == InitText(HeadingPieces)

SpecHeading == InitHeading /\ [][NextRules]_vars

\* the file of the current iteration has been read and the rules applied
Substituted == pc \in {"write", "delete"} /\ stages # <<>>

(***************************************************************************)
(* Directories of whole files                                              *)
(***************************************************************************)

\* <p>a</p>\r\n\r\n : nothing to remove, two line breaks in a row
PlainText ==
    <<"<","p",">","a","<","/","p",">","\r","\n","\r","\n">>

\* a\n\r\n\rb : three line breaks in a row and nothing to remove
BlankText ==
    <<"a","\n","\r","\n","\r","b">>

\* <a href="/blog"><h2>Blog</h2>Blog</a>
NestedText ==
    <<"<","a"," ","h","r","e","f","=","\"","/","b","l","o","g","\"",">",
      "<","h","2",">","B","l","o","g","<","/","h","2",">",
      "B","l","o","g","<","/","a",">">>

\* a file that is not UTF-8
BinaryText == <<"0xFF">>

Contents == {PlainText, H1Blog, BlankText, NestedText, BinaryText}

HtmlNames == {IndexHtml, BlogHtml, BlogsHtml}

Directories ==
    UNION {[S \cup T -> Contents] : S \in SUBSET HtmlNames, T \in SUBSET {NotesTxt}}

Init ==
    /\ run = 1
    /\ \E dir \in {d \in Directories : NotesTxt \in DOMAIN d => d[NotesTxt] = H1Blog} :
          Start(dir)

Spec == Init /\ [][Next]_vars

(***************************************************************************)
(* What the run did, read off ops                                          *)
(***************************************************************************)

IsKind(kind, e) == e.op = kind

Written == SelectSeq(ops, LAMBDA e : IsKind("write", e))

Unlinked == SelectSeq(ops, LAMBDA e : IsKind("unlink", e))

Printed == SelectSeq(ops, LAMBDA e : IsKind("print", e))

Raised == SelectSeq(ops, LAMBDA e : IsKind("raise", e))

NamesOf(es) == [i \in 1..Len(es) |-> es[i].name]

Count(x, seq) == Cardinality({i \in 1..Len(seq) : seq[i] = x})

AllNames == HtmlNames \cup {NotesTxt}

\* No changes
NoChanges == <<"No changes">>

(***************************************************************************)
(* C1                                                                      *)
(***************************************************************************)

\* One step of the script, seen from the file p of the current iteration:
\* when the step is the one after the rules were applied (and write_text does
\* not raise), p is overwritten with the new text and its name appended
\* exactly when the rules and the collapse changed the text read; and no
\* other step changes the content of a file or appends a file name.
WriteStepIsExact ==
    /\ (pc = "write" /\ pc' # "aborted") =>
          LET was == ReadText(fs[cur])
              now == Transform(was)
          IN  IF now # was
              THEN /\ fs' = [fs EXCEPT ![cur] = WriteText(now)]
                   /\ changed' = Append(changed, cur)
                   /\ ops' = Append(ops, Op("write", cur, now))
              ELSE fs' = fs /\ changed' = changed /\ ops' = ops
    /\ pc # "write" =>
          /\ \A n \in DOMAIN fs \cap DOMAIN fs' : fs'[n] = fs[n]
          /\ Len(changed') > Len(changed) =>
                changed'[Len(changed')] \notin AllNames

\* C1: a *.html file of the root is overwritten, and its name appended to
\* the change list, if and only if the four rules followed by the blank-line
\* collapse turn the text read into a different text; a file whose final
\* text equals the text read is never written.
C1_WrittenIffChanged == [][WriteStepIsExact]_vars

\* A finished run that wrote index.html and read blog.html without writing it.
C1_Witness ==
    /\ pc = "done"
    /\ Count(IndexHtml, NamesOf(Written)) = 1
    /\ BlogHtml \in DOMAIN fs0
    /\ Count(BlogHtml, NamesOf(Written)) = 0
    /\ Count(Op("read", BlogHtml, <<>>), ops) = 1

(***************************************************************************)
(* C3                                                                      *)
(***************************************************************************)

\* the deletion loop has gone past name
Checked(name) ==
    \/ name = BlogHtml /\ di > 1
    \/ name = BlogsHtml /\ di > 2

\* C3: for blog.html and for blogs.html, once the deletion loop has checked
\* the name, an entry of that name that was in the root is deleted and
\* "<name> (deleted)" is in the change list, whatever the file held and
\* whether or not the substitution step changed it; after a finished run
\* neither name is in the root.
C3_FixedNamesDeleted ==
    /\ \A name \in {BlogHtml, BlogsHtml} :
          (Checked(name) /\ name \in DOMAIN fs0) =>
              /\ name \notin DOMAIN fs
              /\ Count(name, NamesOf(Unlinked)) = 1
              /\ Count(DeletedEntry(name), changed) = 1
    /\ pc = "done" => BlogHtml \notin DOMAIN fs /\ BlogsHtml \notin DOMAIN fs

\* A finished run that deleted both: blog.html after rewriting it,
\* blogs.html although the rules left it as it was.
C3_Witness ==
    /\ pc = "done"
    /\ Count(BlogHtml, NamesOf(Written)) = 1
    /\ BlogsHtml \in DOMAIN fs0
    /\ Count(BlogsHtml, NamesOf(Written)) = 0
    /\ Count(DeletedEntry(BlogHtml), changed) = 1
    /\ Count(DeletedEntry(BlogsHtml), changed) = 1
    /\ DOMAIN fs \cap {BlogHtml, BlogsHtml} = {}

(***************************************************************************)
(* C5                                                                      *)
(***************************************************************************)

\* the entries "<name> (deleted)" of what was unlinked, in that order
DeletedEntries == [i \in 1..Len(Unlinked) |-> DeletedEntry(Unlinked[i].name)]

\* C5: the change list is the names of the files written, in the order they
\* were visited, followed by the "(deleted)" entries, "blog.html (deleted)"
\* before "blogs.html (deleted)": no "(deleted)" entry comes before the name
\* of a written file.  The report is printed at most once, as the last thing
\* a run does, and a non-empty change list is printed joined by newlines.
C5_ReportOrder ==
    /\ changed = NamesOf(Written) \o DeletedEntries
    /\ \A i, j \in 1..Len(changed) :
          (changed[i] \notin AllNames /\ changed[j] \in AllNames) => j < i
    /\ \A i, j \in 1..Len(changed) :
          (changed[i] = DeletedEntry(BlogHtml) /\ changed[j] = DeletedEntry(BlogsHtml))
              => i < j
    /\ Len(Printed) <= 1
    /\ pc = "done" <=> Len(Printed) = 1
    /\ Len(Printed) = 1 =>
          /\ ops[Len(ops)].op = "print"
          /\ changed # <<>> => Printed[1].data = Join(changed)

\* A finished run whose report lists two written files and both deletions.
C5_Witness ==
    /\ pc = "done"
    /\ Len(Written) = 2
    /\ Len(changed) = 4
    /\ changed[3] = DeletedEntry(BlogHtml)
    /\ changed[4] = DeletedEntry(BlogsHtml)
    /\ Printed[1].data = Join(changed)

(***************************************************************************)
(* C10                                                                     *)
(***************************************************************************)

\* C10: when reading, decoding, writing or deleting raises, the run ends
\* there: the exception is the last thing the run did (no later file is
\* read, written or deleted), no report is printed, and every file written
\* before it still holds the text written.
C10_FaultAborts ==
    /\ Len(Raised) <= 1
    /\ pc = "aborted" <=> Len(Raised) = 1
    /\ Len(Raised) = 1 =>
          /\ ops[Len(ops)].op = "raise"
          /\ Printed = <<>>
          /\ \A i \in 1..Len(Written) :
                Written[i].name \in DOMAIN fs =>
                    fs[Written[i].name] = WriteText(Written[i].data)

\* A run that rewrote one file and then ended on a fault with another file
\* still to visit.
C10_Witness ==
    /\ pc = "aborted"
    /\ Len(Written) = 1
    /\ fs[Written[1].name] # fs0[Written[1].name]
    /\ todo # {}

(***************************************************************************)
(* C2                                                                      *)
(***************************************************************************)

\* C2: a run made right after a finished run writes no file and deletes no
\* file, leaves every file as the first run left it, and reports exactly
\* "No changes".
C2_SecondRunIdle ==
    run >= 2 =>
        /\ Written = <<>>
        /\ Unlinked = <<>>
        /\ fs = fs0
        /\ Printed # <<>> => Printed[1].data = NoChanges

(***************************************************************************)
(* C4                                                                      *)
(***************************************************************************)

\* some rule matches somewhere in the text of the stored file
HasRuleMatch(stored) ==
    /\ Decodable(stored)
    /\ LET t == ReadText(stored)
       IN  \E k \in 1..Len(patterns) : \E p \in 1..Len(t) :
              MatchAt(patterns[k], 1, t, p) # 0

\* the text of the stored file has three line breaks in a row
HasBlankRun(stored) ==
    /\ Decodable(stored)
    /\ LET t == ReadText(stored)
       IN  \E i \in 1..Len(t) - 2 :
              t[i] = "\n" /\ t[i + 1] = "\n" /\ t[i + 2] = "\n"

NoFixedName == DOMAIN fs0 \cap {BlogHtml, BlogsHtml} = {}

\* nothing is written, and what a finished run printed is No changes
Quiet ==
    /\ Written = <<>>
    /\ pc = "done" => Printed = <<Op("print", <<>>, NoChanges)>>

\* C4 as stated: in a directory where no *.html file contains a match of any
\* of the four rules and neither blog.html nor blogs.html exists, the run
\* writes no file and the report is exactly "No changes".
C4_NoMatchNoChanges ==
    \/ Quiet
    \/ ~NoFixedName
    \/ \E n \in Glob(fs0) : HasRuleMatch(fs0[n])

\* C4, amended: in a directory where no *.html file contains, in its text as
\* read, a match of any of the four rules or three or more newlines in a
\* row, and neither blog.html nor blogs.html exists, the run writes no file
\* and the report of a finished run is exactly "No changes".
C4_NoMatchNoBlankRunNoChanges ==
    \/ Quiet
    \/ ~NoFixedName
    \/ \E n \in Glob(fs0) : HasRuleMatch(fs0[n]) \/ HasBlankRun(fs0[n])

\* A finished first run over an index.html with nothing to remove, which
\* printed No changes.
C4_Witness ==
    /\ pc = "done"
    /\ run = 1
    /\ NoFixedName
    /\ IndexHtml \in DOMAIN fs0
    /\ fs0[IndexHtml] = PlainText
    /\ ~HasRuleMatch(PlainText) /\ ~HasBlankRun(PlainText)
    /\ Written = <<>>
    /\ Printed = <<Op("print", <<>>, NoChanges)>>

(***************************************************************************)
(* C6                                                                      *)
(***************************************************************************)

\* the entries of the change list that are about the file name
EntriesFor(name) == Count(name, changed) + Count(DeletedEntry(name), changed)

\* C6 as stated: the change list holds exactly one entry per file the run
\* wrote or deleted, no file has more than one entry, and every entry names
\* a file that was written or deleted in this run.
C6_OneEntryPerFile ==
    /\ \A n \in AllNames :
          /\ EntriesFor(n) <= 1
          /\ EntriesFor(n) = 1 <=>
                (Count(n, NamesOf(Written)) + Count(n, NamesOf(Unlinked)) > 0)
    /\ Len(changed) = Cardinality({n \in AllNames : EntriesFor(n) > 0})

\* C6, amended: the change list holds one entry per write and one per
\* deletion and nothing else: the name of a file once if the run wrote it,
\* "<name> (deleted)" once if the run deleted it.  Only blog.html and
\* blogs.html can have two entries (rewritten, then deleted); every other
\* file has at most one.
C6_OneEntryPerWriteAndDeletion ==
    /\ \A n \in AllNames :
          /\ Count(n, changed) = Count(n, NamesOf(Written))
          /\ Count(n, changed) <= 1
          /\ Count(DeletedEntry(n), changed) = Count(n, NamesOf(Unlinked))
          /\ Count(DeletedEntry(n), changed) <= 1
          /\ EntriesFor(n) = 2 => n \in {BlogHtml, BlogsHtml}
    /\ Len(changed) = Len(Written) + Len(Unlinked)

\* A finished run that rewrote and then deleted blog.html, and rewrote
\* index.html.
C6_Witness ==
    /\ pc = "done"
    /\ EntriesFor(BlogHtml) = 2
    /\ EntriesFor(IndexHtml) = 1
    /\ Len(changed) = 3

(***************************************************************************)
(* C7                                                                      *)
(***************************************************************************)

\* C7: a list item whose anchor has an href containing "blog" and whose link
\* text is Blog is not in the output, and every other list item of the input
\* is in the output as often as in the input.
C7_BlogItemsRemoved ==
    Substituted =>
        /\ \A b \in BlogItems : Occurs(b, text) = 0
        /\ \A o \in OtherItems : Occurs(o, text) = Occurs(o, original)

(***************************************************************************)
(* C8                                                                      *)
(***************************************************************************)

\* C8: a heading h1..h6 whose text is Blog (in any case, with whitespace
\* around it) is neither in the text the heading rule leaves nor in the
\* output; a heading whose text is not exactly Blog is in the text the
\* heading rule leaves as often as in the text the rule was given.
C8_HeadingRule ==
    Substituted =>
        /\ \A b \in BlogHeadings : Occurs(b, stages[5]) = 0 /\ Occurs(b, text) = 0
        /\ \A o \in OtherHeadings : Occurs(o, stages[5]) = Occurs(o, stages[4])

\* A text with a Blog heading next to "Blog Archive", after the rules: the
\* first is gone and the second is still there.
C8_Witness ==
    /\ Substituted
    /\ Occurs(H2Blog, original) = 1
    /\ Occurs(HArchive, original) = 1
    /\ Occurs(H2Blog, text) = 0
    /\ Occurs(HArchive, text) = 1

(***************************************************************************)
(* C9                                                                      *)
(***************************************************************************)

Least(S) == CHOOSE x \in S : \A y \in S : x <= y

\* where </section> is in t, from p on
ClosingsFrom(t, p) == {q \in p..Len(t) : OccursAt(CloseSection, t, q)}

\* t from pos on, without the text from each opening tag of BlogOpenings
\* through the first </section> after it
RECURSIVE WithoutBlogSections(_, _)
WithoutBlogSections(t, pos) ==
    LET starts == {p \in pos..Len(t) :
                     \E o \in BlogOpenings :
                        OccursAt(o, t, p) /\ ClosingsFrom(t, p + Len(o)) # {}}
    IN  IF starts = {} THEN SubSeq(t, pos, Len(t))
        ELSE LET s == Least(starts)
                 o == CHOOSE o \in BlogOpenings : OccursAt(o, t, s)
                 c == Least(ClosingsFrom(t, s + Len(o)))
             IN  SubSeq(t, pos, s - 1)
                   \o WithoutBlogSections(t, c + Len(CloseSection))

\* C9: the section rule removes, for every opening section tag whose id or
\* class contains "blog", the text from that tag through the first
\* </section> after it, and nothing else: with a section nested inside it
\* the removal ends at the inner closing tag and the outer one stays.
C9_SectionRemoved ==
    Substituted => stages[4] = WithoutBlogSections(stages[3], 1)
=============================================================================
